---- MODULE Spec2Model ----
(***************************************************************************)
(* A model of lib/compiler.js: compiler.compile and the helpers it calls.  *)
(*                                                                         *)
(* JavaScript strings are modelled as non-empty sequences of lines, a line *)
(* being a sequence of tokens; "\n" separates lines, so that               *)
(* s.split(/\r?\n/).length is Len(s) and '' is the one empty line.         *)
(***************************************************************************)
EXTENDS Integers, Sequences, FiniteSets, TLC

VARIABLES
    env,                 \* process.env: isProduction, isServer, isTest
    options,             \* compiler.options: the keys set so far
    compilers,           \* the languages the registry has a transform for
    hasBabel,            \* whether require('babel-core') succeeded
    resolvedPartsCache,  \* scope id -> resolved parts of the last merged run
    nrun,                \* number of compile() calls made so far
    input,               \* per run: the arguments of compile()
    pc,                  \* per run: where the run is
    pending,             \* per run: part compilations not settled yet
    resolvedParts,       \* per run: the resolvedParts object
    join,                \* per run: the state of the Promise.all
    mloc,                \* per run: locals of mergeParts kept across the await
    cbCalls,             \* per run: the invocations of the callback, in order
    emitted,             \* per run: notifications and file reads, in order
    thrown,              \* per run: rejection of the promise compile() returned
    merged,              \* the runs whose mergeParts has been entered
    mergeOrder,          \* those runs, in the order they entered it
    failures,            \* per run: the errors of its part compilations, in order
    optionReads          \* per run: the options mergeParts read, <<line, value>>

vars == <<env, options, compilers, hasBabel, resolvedPartsCache, nrun, input, pc, pending,
          resolvedParts, join, mloc, cbCalls, emitted, thrown, merged, mergeOrder,
          failures, optionReads>>

---------------------------------------------------------------------------
(* Bounds *)

MaxRuns == 2

Runs == 1..MaxRuns

---------------------------------------------------------------------------
(* JavaScript values *)

Null == [t |-> "null"]
Undefined == [t |-> "undefined"]
Str(v) == [t |-> "string", v |-> v]
IsStr(x) == x.t = "string"

\* Text: the payload of a string value.
Empty == << <<>> >>
Lit(tok) == << <<tok>> >>
NL == << <<>>, <<>> >>

\* a + b on texts
Cat(a, b) == SubSeq(a, 1, Len(a) - 1) \o << a[Len(a)] \o b[1] >> \o Tail(b)

RECURSIVE CatAll(_)
CatAll(ts) == IF ts = <<>> THEN Empty ELSE Cat(ts[1], CatAll(Tail(ts)))

\* Array.prototype.join('\n') on an array of texts
RECURSIVE JoinNL(_)
JoinNL(ts) ==
    IF ts = <<>> THEN Empty
    ELSE IF Len(ts) = 1 THEN ts[1]
    ELSE ts[1] \o JoinNL(Tail(ts))

\* String.prototype.trim: leading and trailing blank lines go
RECURSIVE TrimLeft(_)
TrimLeft(t) == IF Len(t) > 1 /\ t[1] = <<>> THEN TrimLeft(Tail(t)) ELSE t

RECURSIVE TrimRight(_)
TrimRight(t) ==
    IF Len(t) > 1 /\ t[Len(t)] = <<>> THEN TrimRight(SubSeq(t, 1, Len(t) - 1)) ELSE t

Trim(t) == TrimRight(TrimLeft(t))

\* JSON.stringify of a text: one line, the line breaks escaped
RECURSIVE EscapeLines(_)
EscapeLines(t) ==
    IF Len(t) = 1 THEN t[1] ELSE t[1] \o <<"\\n">> \o EscapeLines(Tail(t))

JSONstringify(t) == << <<"\"">> \o EscapeLines(t) \o <<"\"">> >>

\* truthiness of a text ('' is falsy)
Truthy(t) == t # Empty

\* whether token tok occurs in text t
Contains(t, tok) == \E i \in 1..Len(t) : \E j \in 1..Len(t[i]) : t[i][j] = tok

---------------------------------------------------------------------------
(* The environment of the process *)

\* the component files the caller compiles, all in one directory
FilePaths == {"a.vue", "b.vue"}
Dirname(filePath) == "/app"

\* genId(filePath): the fingerprint of the file path
genId(filePath) == IF filePath = "a.vue" THEN "7ba5bd90" ELSE "2ce5c1a8"

\* line 68: the css scope id
ScopeId(filePath) == Cat(Lit("data-v-"), Lit(genId(filePath)))

Ids == {ScopeId(f) : f \in FilePaths}

\* the files on disk next to the components: name -> content
Files == [f \in {"ext.txt"} |-> Lit("e")]

\* the language tags the registry of ./compilers has a transform for when the
\* module is loaded
Compilers == {"x", "babel"}

\* line 35: options = {}; a key that is not there reads as undefined
NoOptions == [k \in {} |-> TRUE]

\* the truthiness of options[key]
OptionOn(o, key) == key \in DOMAIN o /\ o[key]

\* lines 50-52: the keys of the config copied onto the options
applyConfigOptions(o, config) ==
    LET keys == DOMAIN config \ {"customCompilers"}
    IN [k \in DOMAIN o \cup keys |-> IF k \in keys THEN config[k] ELSE o[k]]

\* lines 54-57: the custom compilers registered under their names
applyConfigCompilers(registry, config) ==
    IF "customCompilers" \in DOMAIN config
    THEN registry \cup config.customCompilers
    ELSE registry

\* the configs a caller applies
Configs ==
    {[extractCSS |-> TRUE], [extractCSS |-> FALSE], [sourceMap |-> TRUE],
     [customCompilers |-> {"y"}]}

\* what a vue.config.js in the working directory exports
ConfigFiles == {[sourceMap |-> TRUE, extractCSS |-> TRUE]}

insertCSSPath == "vueify/lib/insert-css"
hotReloadAPIPath == "vue-hot-reload-api"

Error(name) == [t |-> "error", name |-> name]
TypeError == Error("TypeError")
ParseError == Error("ParseError")
CbError == Error("CallbackError")
TransformError(kind, idx) == [t |-> "error", name |-> kind, idx |-> idx]

---------------------------------------------------------------------------
(* Component documents, as vueCompiler.parseComponent splits them *)

Part(content, src, lang, scoped, line) ==
    [content |-> content, src |-> src, lang |-> lang, scoped |-> scoped, line |-> line]

Doc(template, script, styles) ==
    [malformed |-> FALSE, template |-> template, script |-> script, styles |-> styles]

MalformedDoc == [malformed |-> TRUE, template |-> Null, script |-> Null, styles |-> <<>>]

\* line 70: the parts of a document that parses (it throws on one that does not)
parseComponent(content) ==
    [template |-> content.template, script |-> content.script, styles |-> content.styles]

tA == Part(<< <<"p A">> >>, "", "", FALSE, 1)
tB == Part(<< <<"p B">>, <<"hr">> >>, "", "", FALSE, 1)
tX == Part(<< <<"pug A">> >>, "", "x", FALSE, 1)
tGone == Part(Empty, "gone.html", "", FALSE, 1)

\* with pad: true the script content starts with one "//" line per document
\* line before it
sA == Part(<< <<"//">>, <<"//">>, <<"export default {a}">> >>, "", "", FALSE, 3)
sB == Part(<< <<"//">>, <<"//">>, <<"const b = 1">>, <<"export default {b}">> >>, "", "", FALSE, 3)
sE == Part(Empty, "", "", FALSE, 1)
sX == Part(<< <<"//">>, <<"//">>, <<"export default {a}">> >>, "", "x", FALSE, 3)
sBabel == Part(<< <<"//">>, <<"//">>, <<"export default {a}">> >>, "", "babel", FALSE, 3)
sY == Part(<< <<"//">>, <<"//">>, <<"export default {a}">> >>, "", "y", FALSE, 3)
sGone == Part(Empty, "gone.js", "", FALSE, 3)
sFile == Part(Empty, "ext.txt", "", FALSE, 3)

cA == Part(<< <<>>, <<".a{}">>, <<>> >>, "", "", FALSE, 5)
cB == Part(<< <<>>, <<".b{}">> >>, "", "", FALSE, 7)
cS == Part(<< <<>>, <<".s{}">> >>, "", "", TRUE, 7)
cE == Part(<< <<>>, <<>> >>, "", "", FALSE, 5)
cX == Part(<< <<".x">> >>, "", "x", FALSE, 5)
cY == Part(<< <<".y">> >>, "", "x", TRUE, 7)
cGone == Part(Empty, "gone.css", "", FALSE, 5)
cGoneX == Part(Empty, "gone.css", "x", FALSE, 5)

Docs ==
    {Doc(t, s, <<>>) : t \in {Null, tA, tB}, s \in {Null, sA, sB}}
    \cup {Doc(Null, sE, <<>>), Doc(tX, sX, <<>>), Doc(tA, sBabel, <<>>),
          Doc(Null, sFile, <<>>), Doc(Null, sY, <<>>)}
    \cup {Doc(Null, sA, st) : st \in {<<cA>>, <<cS>>, <<cE>>, <<cA, cB>>, <<cS, cA>>}}
    \cup {Doc(tA, sX, <<cX, cY>>), Doc(Null, Null, <<cX, cA>>)}
    \cup {Doc(tGone, Null, <<>>), Doc(Null, sGone, <<>>), Doc(Null, sA, <<cGone>>),
          Doc(Null, Null, <<cGoneX>>)}
    \cup {MalformedDoc}

\* the scoped test asking every style part, not some
hasScopedStyleEvery(parts) == \A i \in 1..Len(parts.styles) : parts.styles[i].scoped

\* line 73
hasScopedStyle(parts) == \E i \in 1..Len(parts.styles) : parts.styles[i].scoped

---------------------------------------------------------------------------
(* Part compilers: lines 236-308 *)

Event(ev, file, arg) == [ev |-> ev, file |-> file, arg |-> arg]

\* lines 278-279: path.resolve(path.dirname(filePath), src)
SrcPath(src, filePath) == << <<Dirname(filePath), "/", src>> >>

\* lines 277-286: the dependency notification, then the read; a failed read is
\* logged and the function returns nothing
loadSrc(src, filePath) ==
    [events |-> << Event("dependency", filePath, SrcPath(src, filePath)),
                   Event("readFileSync", filePath, SrcPath(src, filePath)) >>,
     value |-> IF src \in DOMAIN Files THEN Str(Files[src]) ELSE Undefined]

\* lines 271-275
getContent(part, filePath) ==
    IF part.src # ""
    THEN loadSrc(part.src, filePath)
    ELSE [events |-> <<>>, value |-> Str(part.content)]

\* line 247
ScriptLang(part, babel) ==
    IF part.lang # "" THEN part.lang ELSE IF babel THEN "babel" ELSE ""

Resolved(v) == [ok |-> TRUE, val |-> v]
Rejected(e) == [ok |-> FALSE, val |-> e]

\* what a registered transform hands to its callback on success: "x" gives a
\* plain string, "babel" a {code, map} pair whose first line is generated
TextOf(source) == IF IsStr(source) THEN source.v ELSE Empty

TransformResult(lang, source) ==
    IF lang = "babel"
    THEN [t |-> "object",
          code |-> Str(<< <<"\"use strict\";">> >> \o TextOf(source)),
          map |-> [t |-> "map",
                   lines |-> <<0>> \o [i \in 1..Len(TextOf(source)) |-> i]]]
    ELSE Str(Cat(Lit("x:"), TextOf(source)))

\* lines 288-308: the ways the promise can settle
compileAsPromise(type, idx, source, lang, registry) ==
    IF lang \in registry
    THEN {Rejected(TransformError(type, idx)), Resolved(TransformResult(lang, source))}
    ELSE {Resolved(source)}

\* compileTemplate(res, compiler) of ./template-compiler: a new render-function
\* pair on every call; what it does with no template text is open
TemplateObj(text, ref) ==
    [t |-> "object", ref |-> ref,
     render |-> Lit("function () {") \o text \o Lit("}"),
     staticRenderFns |-> Lit("[]")]

compileTemplate(res, ref) ==
    IF IsStr(res)
    THEN {Resolved(TemplateObj(res.v, ref))}
    ELSE {Resolved(TemplateObj(Empty, ref)), Rejected(TypeError)}

\* rewriteStyle(id, css, scoped, options) of ./style-rewriter
rewriteStyle(id, css, scoped) ==
    IF scoped
    THEN [i \in 1..Len(css) |->
            IF css[i] = <<>> THEN <<>> ELSE css[i] \o <<"[">> \o id[1] \o <<"]">>]
    ELSE css

\* how a callback of a part compilation ends: the parts as it leaves them, the
\* error it throws, the promise the part goes on waiting for
Changed(parts) == [ok |-> TRUE, parts |-> parts, err |-> Null, next |-> {}]
Failed(parts, e) == [ok |-> FALSE, parts |-> parts, err |-> e, next |-> {}]
Waiting(parts, task) == [ok |-> TRUE, parts |-> parts, err |-> Null, next |-> {task}]

\* line 265: the promise rewriteStyle returns, to be settled later
RewriteTask(idx, css, scoped) ==
    [kind |-> "rewrite", idx |-> idx, source |-> Str(css), lang |-> "",
     scoped |-> scoped, promise |-> {Resolved(Str(css))}]

\* lines 240-242
TemplateThen(parts, res, ref) ==
    {IF o.ok THEN Changed([parts EXCEPT !.template = o.val]) ELSE Failed(parts, o.val) :
        o \in compileTemplate(res, ref)}

\* lines 250-257
ScriptThen(parts, res) ==
    IF IsStr(res)
    THEN {Changed([parts EXCEPT !.script = res])}
    ELSE IF res.t = "object"
    THEN {Changed([parts EXCEPT !.script = res.code, !.map = res.map])}
    ELSE {Failed(parts, TypeError)}

\* line 266
StylePush(styles, css) == Append(styles, css)

\* lines 263-265: trim, then the call of rewriteStyle
StyleThen(parts, res, id, idx, scoped) ==
    IF IsStr(res)
    THEN {Waiting(parts, RewriteTask(idx, rewriteStyle(id, Trim(res.v), scoped), scoped))}
    ELSE {Failed(parts, TypeError)}

\* lines 265-267: the callback of the rewriteStyle promise
RewriteThen(parts, res) ==
    {Changed([parts EXCEPT !.styles = StylePush(parts.styles, res.v)])}

\* processTemplate, processScript, processStyle: how a part compilation settles
PartOutcomes(parts, task, id, ref) ==
    UNION {IF ~o.ok THEN {Failed(parts, o.val)}
           ELSE IF task.kind = "template" THEN TemplateThen(parts, o.val, ref)
           ELSE IF task.kind = "script" THEN ScriptThen(parts, o.val)
           ELSE IF task.kind = "rewrite" THEN RewriteThen(parts, o.val)
           ELSE StyleThen(parts, o.val, id, task.idx, task.scoped) :
              o \in task.promise}

\* a part compilation started: the promise compileAsPromise returned for it
Task(kind, idx, part, lang, filePath, registry) ==
    [kind |-> kind, idx |-> idx, source |-> getContent(part, filePath).value,
     lang |-> lang, scoped |-> part.scoped,
     promise |-> compileAsPromise(kind, idx, getContent(part, filePath).value, lang,
                                  registry)]

\* lines 81-84: the part compilations started, in the order of the array
StartedParts(parts, filePath, babel) ==
    (IF parts.template = Null THEN <<>>
     ELSE << [kind |-> "template", idx |-> 0, part |-> parts.template,
              lang |-> parts.template.lang] >>)
    \o (IF parts.script = Null THEN <<>>
        ELSE << [kind |-> "script", idx |-> 0, part |-> parts.script,
                 lang |-> ScriptLang(parts.script, babel)] >>)
    \o [i \in 1..Len(parts.styles) |->
          [kind |-> "style", idx |-> i, part |-> parts.styles[i],
           lang |-> parts.styles[i].lang]]

RECURSIVE StartEvents(_, _)
StartEvents(started, filePath) ==
    IF started = <<>> THEN <<>>
    ELSE getContent(started[1].part, filePath).events \o StartEvents(Tail(started), filePath)

StartTasks(started, filePath, registry) ==
    {Task(started[i].kind, started[i].idx, started[i].part, started[i].lang, filePath,
          registry) :
        i \in 1..Len(started)}

\* lines 75-79
NewResolvedParts == [template |-> Null, script |-> Null, map |-> Undefined, styles |-> <<>>]

\* Promise.all: rejected by the first rejection, fulfilled when nothing is left
AllSettled(left) == left = {}

\* a join that keeps the error of the latest rejection
JoinAfterLast(j, ok, err, left) ==
    IF ~ok THEN [st |-> "rejected", err |-> err]
    ELSE IF j.st # "pending" THEN j
    ELSE IF AllSettled(left) THEN [st |-> "fulfilled", err |-> Null]
    ELSE j

JoinAfter(j, ok, err, left) ==
    IF j.st # "pending" THEN j
    ELSE IF ~ok THEN [st |-> "rejected", err |-> err]
    ELSE IF AllSettled(left) THEN [st |-> "fulfilled", err |-> Null]
    ELSE j

---------------------------------------------------------------------------
(* mergeParts: lines 88-181, generateSourceMap, addTemplateMapping *)

Line(toks) == << toks >>
LineNL(toks) == << toks, <<>> >>

TruthyVal(v) == IF IsStr(v) THEN Truthy(v.v) ELSE v.t \in {"object", "map"}

\* !== on two values: objects by identity, strings by content
StrictNotEqual(a, b) ==
    IF a.t = "object" /\ b.t = "object" THEN a.ref # b.ref ELSE a # b

\* line 90: the entry's field, undefined when there is no entry
PrevField(cache, id, field) ==
    IF cache[id] = Null THEN Undefined
    ELSE IF field = "script" THEN cache[id].script ELSE cache[id].template

\* a store that keeps the entry a scope id already has
CacheStoreOnce(cache, id, parts) ==
    IF cache[id] = Null THEN [cache EXCEPT ![id] = parts] ELSE cache

\* line 91
CacheStore(cache, id, parts) == [cache EXCEPT ![id] = parts]

\* the script diff taken against the entry just stored (lines 90 and 91 swapped)
ScriptChangedAfterStore(parts, cache, id) ==
    StrictNotEqual(parts.script, PrevField(CacheStore(cache, id, parts), id, "script"))

\* line 92
ScriptChanged(parts, cache, id) ==
    StrictNotEqual(parts.script, PrevField(cache, id, "script"))

\* the template diff taken against the entry just stored
TemplateChangedAfterStore(parts, cache, id) ==
    StrictNotEqual(parts.template, PrevField(CacheStore(cache, id, parts), id, "template"))

\* line 93
TemplateChanged(parts, cache, id) ==
    StrictNotEqual(parts.template, PrevField(cache, id, "template"))

\* line 98
JoinedStyle(parts) == JoinNL(parts.styles)

\* the notification test with the server flag the wrong way round
EmitsStyleOnServer(style, e) == Truthy(style) /\ e.isServer

\* line 99
EmitsStyle(style, e) == Truthy(style) /\ ~e.isServer

\* the inlining test without the extraction option
InlinesStyleIgnoringExtraction(style, e, o) == EmitsStyle(style, e)

\* line 105
InlinesStyle(style, e, o) == EmitsStyle(style, e) /\ ~OptionOn(o, "extractCSS")

\* lines 107-108
StyleInjection(json) ==
    CatAll(<< Line(<<"var __vueify_style_dispose__ = require(\"", insertCSSPath,
                     "\").insert(">>),
              json, LineNL(<<")">>) >>)

\* lines 117-120
ScriptBlock(script) ==
    CatAll(<< LineNL(<<";(function(){">>), script, NL, LineNL(<<"})()">>),
              LineNL(<<"if (module.exports.__esModule) module.exports = module.exports.default">>) >>)

\* lines 123-125
OptionsBinding ==
    LineNL(<<"var __vue__options__ = (typeof module.exports === \"function\"? module.exports.options: module.exports)">>)

\* lines 129-135
FunctionalGuard(e) ==
    IF ~e.isProduction /\ ~e.isServer
    THEN LineNL(<<"if (__vue__options__.functional) {console.error(\"[vueify] functional components are not supported and should be defined in plain js files using render functions.\")}">>)
    ELSE Empty

\* lines 140-142
RenderBlock(template) ==
    CatAll(<< Line(<<"__vue__options__.render = ">>), template.render, NL,
              Line(<<"__vue__options__.staticRenderFns = ">>), template.staticRenderFns, NL >>)

\* lines 148-150
ScopeAttachment(scoped, id) ==
    IF scoped
    THEN CatAll(<< Line(<<"__vue__options__._scopeId = \"">>), id, LineNL(<<"\"">>) >>)
    ELSE Empty

\* the hot-reload condition without the test flag
HotReloadOnIgnoringTest(e) == ~e.isProduction /\ ~e.isServer

\* line 152
HotReloadOn(e) == ~e.isProduction /\ ~e.isTest /\ ~e.isServer

\* the disposal hook registered whenever there is CSS, extracted or not
DisposeHookIgnoringExtraction(style, o) ==
    IF Truthy(style)
    THEN LineNL(<<"  module.hot.dispose(__vueify_style_dispose__)">>)
    ELSE Empty

\* lines 160-162
DisposeHook(style, o) ==
    IF Truthy(style) /\ ~OptionOn(o, "extractCSS")
    THEN LineNL(<<"  module.hot.dispose(__vueify_style_dispose__)">>)
    ELSE Empty

\* lines 168-173
UpdateAction(scriptChanged, templateChanged, id) ==
    IF scriptChanged
    THEN CatAll(<< Line(<<"    hotAPI.reload(\"">>), id, LineNL(<<"\", __vue__options__)">>) >>)
    ELSE IF templateChanged
    THEN CatAll(<< Line(<<"    hotAPI.rerender(\"">>), id, LineNL(<<"\", __vue__options__)">>) >>)
    ELSE Empty

\* lines 153-175
HotReloadBlock(style, o, scriptChanged, templateChanged, id) ==
    CatAll(<< Line(<<"if (module.hot) {(function () {">>),
              LineNL(<<"  var hotAPI = require(\"", hotReloadAPIPath, "\")">>),
              LineNL(<<"  hotAPI.install(require(\"vue\"), true)">>),
              LineNL(<<"  if (!hotAPI.compatible) return">>),
              LineNL(<<"  module.hot.accept()">>),
              DisposeHook(style, o),
              LineNL(<<"  if (!module.hot.data) {">>),
              Line(<<"    hotAPI.createRecord(\"">>), id, LineNL(<<"\", __vue__options__)">>),
              LineNL(<<"  } else {">>),
              UpdateAction(scriptChanged, templateChanged, id),
              LineNL(<<"  }">>),
              Line(<<"})()}">>) >>)

\* line 178
MapComment == Cat(NL, Line(<<"//# sourceMappingURL=data:application/json;charset=utf-8;base64,">>))

\* line 195: inMapConsumer.originalPositionFor({line: ln, column: 0}).line
OriginalLine(inMap, ln) ==
    IF ln \in 1..Len(inMap.lines) THEN inMap.lines[ln] ELSE 0

\* line 191
GeneratedOffset(output) == (IF Truthy(output) THEN Len(output) ELSE 0) + 1

\* lines 192-210: one mapping per script line that has an original line
ScriptMappings(script, output, inMap) ==
    LET all == [ln \in 1..Len(script) |->
                  <<ln + GeneratedOffset(output),
                    IF TruthyVal(inMap) THEN OriginalLine(inMap, ln) ELSE ln>>]
    IN SelectSeq(all, LAMBDA m : m[2] # 0)

\* line 185: path.basename(filePath) + '?' + hash(filePath + content), the
\* hash a value that tells any two of its arguments apart
Basename(filePath) == filePath
hash(filePath, content) == <<filePath, content>>
hashedFilename(filePath, content) == <<Basename(filePath), "?", hash(filePath, content)>>

\* lines 183-215: line 213 calls destroy() on the consumer, which is there only
\* when the script compiler gave a map
generateSourceMap(script, output, inMap, filePath, content) ==
    IF TruthyVal(inMap)
    THEN Resolved([t |-> "map", source |-> hashedFilename(filePath, content),
                   mappings |-> ScriptMappings(script, output, inMap)])
    ELSE Rejected(TypeError)

\* the loop of lines 221-233 run up to and including afterLines
addTemplateMappingInclusive(templateLine, output, map, beforeLines) ==
    [map EXCEPT !.mappings =
        @ \o [k \in 1..(Len(output) - beforeLines + 1) |->
                <<beforeLines + k - 1, templateLine>>]]

\* lines 218-234
addTemplateMapping(templateLine, output, map, beforeLines) ==
    [map EXCEPT !.mappings =
        @ \o [k \in 1..(Len(output) - beforeLines) |-> <<beforeLines + k - 1, templateLine>>]]

\* lines 117-180, from the script block to the text handed to the callback
MergeTail(parts, parsed, id, e, o, output, style, scriptChanged, templateChanged, map) ==
    LET out2 == IF TruthyVal(parts.script)
                THEN Cat(output, ScriptBlock(parts.script.v)) ELSE output
        out3 == Cat(out2, OptionsBinding)
        hasT == TruthyVal(parts.template)
        out4 == IF hasT THEN Cat(out3, FunctionalGuard(e)) ELSE out3
        out5 == IF hasT THEN Cat(out4, RenderBlock(parts.template)) ELSE out4
        map5 == IF hasT /\ map # Null
                THEN addTemplateMapping(parsed.template.line, out5, map, Len(out4))
                ELSE map
        out6 == Cat(out5, ScopeAttachment(hasScopedStyle(parsed), id))
        out7 == IF HotReloadOn(e)
                THEN Cat(out6, HotReloadBlock(style, o, scriptChanged, templateChanged, id))
                ELSE out6
        out8 == IF map5 # Null THEN Cat(out7, MapComment) ELSE out7
    IN [out |-> Str(out8), map |-> map5]

---------------------------------------------------------------------------
(* The state machine *)

NoInput == [t |-> "none"]
NoLocals == [t |-> "none"]
NoJoin == [st |-> "none", err |-> Null]

Flags == [isProduction : BOOLEAN, isServer : BOOLEAN, isTest : BOOLEAN]

Init ==
    /\ env \in Flags
    /\ options = NoOptions
    /\ compilers = Compilers
    /\ hasBabel \in BOOLEAN
    /\ resolvedPartsCache = [id \in Ids |-> Null]
    /\ nrun = 0
    /\ input = [r \in Runs |-> NoInput]
    /\ pc = [r \in Runs |-> "idle"]
    /\ pending = [r \in Runs |-> {}]
    /\ resolvedParts = [r \in Runs |-> Null]
    /\ join = [r \in Runs |-> NoJoin]
    /\ mloc = [r \in Runs |-> NoLocals]
    /\ cbCalls = [r \in Runs |-> <<>>]
    /\ emitted = [r \in Runs |-> <<>>]
    /\ thrown = [r \in Runs |-> Null]
    /\ merged = {}
    /\ mergeOrder = <<>>
    /\ failures = [r \in Runs |-> <<>>]
    /\ optionReads = [r \in Runs |-> {}]

\* lines 38-60: compiler.applyConfig(config)
ApplyConfig(config) ==
    /\ options' = applyConfigOptions(options, config)
    /\ compilers' = applyConfigCompilers(compilers, config)
    /\ UNCHANGED <<env, hasBabel, resolvedPartsCache, nrun, input, pc, pending,
                   resolvedParts, join, mloc, cbCalls, emitted, thrown, merged,
                   mergeOrder, failures, optionReads>>

\* lines 38-45: compiler.loadConfig(), with or without a vue.config.js in the
\* working directory
LoadConfig(exists, config) ==
    IF exists THEN ApplyConfig(config) ELSE UNCHANGED vars

\* an invocation of the caller's callback: cb(err) or cb(null, output)
Call(err, res) == [err |-> err, out |-> res.out, map |-> res.map]
NoOutput == [out |-> Undefined, map |-> Null]

\* lines 62-86: the synchronous part of compile(content, filePath, cb)
CompileCall(r, content, filePath, cbThrows) ==
    /\ r = nrun + 1
    /\ nrun' = r
    /\ input' = [input EXCEPT ![r] =
                    [content |-> content, filePath |-> filePath, cbThrows |-> cbThrows]]
    /\ IF content.malformed
       THEN /\ thrown' = [thrown EXCEPT ![r] = ParseError]
            /\ pc' = [pc EXCEPT ![r] = "done"]
            /\ UNCHANGED <<pending, resolvedParts, join, emitted>>
       ELSE LET parts == parseComponent(content)
                started == StartedParts(parts, filePath, hasBabel)
            IN /\ emitted' = [emitted EXCEPT ![r] = StartEvents(started, filePath)]
               /\ pending' = [pending EXCEPT ![r] = StartTasks(started, filePath, compilers)]
               /\ resolvedParts' = [resolvedParts EXCEPT ![r] = NewResolvedParts]
               /\ join' = [join EXCEPT ![r] =
                             IF started = <<>> THEN [st |-> "fulfilled", err |-> Null]
                             ELSE [st |-> "pending", err |-> Null]]
               /\ pc' = [pc EXCEPT ![r] = "parts"]
               /\ UNCHANGED thrown
    /\ UNCHANGED <<env, options, compilers, hasBabel, resolvedPartsCache, mloc,
                   cbCalls, merged, mergeOrder, failures, optionReads>>

\* a caller that makes its calls one after the other's result
Compile(r, content, filePath, cbThrows) ==
    /\ \A q \in Runs : q < r => pc[q] = "done"
    /\ CompileCall(r, content, filePath, cbThrows)

\* one part compilation of run r settles (lines 236-269)
PartSettle(r, task) ==
    /\ task \in pending[r]
    /\ \E res \in PartOutcomes(resolvedParts[r], task,
                               ScopeId(input[r].filePath), r) :
         LET left == (pending[r] \ {task}) \cup res.next
         IN /\ resolvedParts' = [resolvedParts EXCEPT ![r] = res.parts]
            /\ join' = [join EXCEPT ![r] = JoinAfter(@, res.ok, res.err, left)]
            /\ failures' = [failures EXCEPT ![r] =
                              IF res.ok THEN @ ELSE Append(@, res.err)]
            /\ pending' = [pending EXCEPT ![r] = left]
    /\ UNCHANGED <<env, options, compilers, hasBabel, resolvedPartsCache, nrun, input,
                   pc, mloc, cbCalls, emitted, thrown, merged, mergeOrder, optionReads>>

\* line 180: cb(null, output); what the callback throws rejects mergeParts
Deliver(r, res) ==
    /\ cbCalls' = [cbCalls EXCEPT ![r] = Append(@, Call(Null, res))]
    /\ IF input[r].cbThrows
       THEN /\ pc' = [pc EXCEPT ![r] = "rejected"]
            /\ mloc' = [mloc EXCEPT ![r] = [t |-> "rejected", err |-> CbError]]
       ELSE /\ pc' = [pc EXCEPT ![r] = "done"]
            /\ mloc' = [mloc EXCEPT ![r] = NoLocals]

\* a chain that starts mergeParts without waiting for the join
MergeReadyEager(j) == j.st # "rejected"

\* line 85: when mergeParts may start
MergeReady(j) == j.st = "fulfilled"

\* the reads of the options at lines 105 and 114, as the tests before them
\* let them happen
ReadsBeforeScript(joined, script, e, o) ==
    (IF EmitsStyle(joined, e) THEN {<<105, OptionOn(o, "extractCSS")>>} ELSE {})
    \cup (IF TruthyVal(script) THEN {<<114, OptionOn(o, "sourceMap")>>} ELSE {})

\* the read of line 160
ReadsInHotReload(style, e, o) ==
    IF HotReloadOn(e) /\ Truthy(style) THEN {<<160, OptionOn(o, "extractCSS")>>} ELSE {}

\* the map local while generateSourceMap has not settled
NotYet == [ok |-> FALSE, val |-> Undefined]

\* lines 88-116: mergeParts up to the script block; with a source map to
\* build it calls generateSourceMap, which runs to its await of line 190 when
\* the script has an incoming map and to its end when it has none, and
\* mergeParts is suspended at the await of line 115
MergeParts(r) ==
    /\ pc[r] = "parts"
    /\ MergeReady(join[r])
    /\ merged' = merged \cup {r}
    /\ mergeOrder' = Append(mergeOrder, r)
    /\ LET parts == resolvedParts[r]
           filePath == input[r].filePath
           id == ScopeId(filePath)
           scriptChanged == ScriptChanged(parts, resolvedPartsCache, id)
           templateChanged == TemplateChanged(parts, resolvedPartsCache, id)
           joined == JoinedStyle(parts)
           inline == InlinesStyle(joined, env, options)
           style == IF inline THEN JSONstringify(joined) ELSE joined
           output == IF inline THEN StyleInjection(style) ELSE Empty
           reads == ReadsBeforeScript(joined, parts.script, env, options)
       IN /\ resolvedPartsCache' = CacheStore(resolvedPartsCache, id, parts)
          /\ emitted' = [emitted EXCEPT ![r] =
                           IF EmitsStyle(joined, env)
                           THEN Append(@, Event("style", filePath, joined)) ELSE @]
          /\ IF TruthyVal(parts.script) /\ OptionOn(options, "sourceMap")
             THEN /\ pc' = [pc EXCEPT ![r] =
                              IF TruthyVal(parts.map) THEN "awaitConsumer" ELSE "awaitMap"]
                  /\ mloc' = [mloc EXCEPT ![r] =
                       [t |-> "suspended", output |-> output, style |-> style,
                        scriptChanged |-> scriptChanged,
                        templateChanged |-> templateChanged,
                        map |-> IF TruthyVal(parts.map) THEN NotYet
                                ELSE generateSourceMap(parts.script.v, output, parts.map,
                                                       filePath, input[r].content)]]
                  /\ optionReads' = [optionReads EXCEPT ![r] = reads]
                  /\ UNCHANGED cbCalls
             ELSE /\ Deliver(r, MergeTail(parts, parseComponent(input[r].content), id,
                                          env, options, output, style, scriptChanged,
                                          templateChanged, Null))
                  /\ optionReads' = [optionReads EXCEPT ![r] =
                                       reads \cup ReadsInHotReload(style, env, options)]
    /\ UNCHANGED <<env, options, compilers, hasBabel, nrun, input, pending,
                   resolvedParts, join, thrown, failures>>

\* lines 190-214: generateSourceMap resumes with the consumer of the incoming
\* map and settles its promise
GenerateSourceMapResume(r) ==
    /\ pc[r] = "awaitConsumer"
    /\ pc' = [pc EXCEPT ![r] = "awaitMap"]
    /\ mloc' = [mloc EXCEPT ![r].map =
                  generateSourceMap(resolvedParts[r].script.v, mloc[r].output,
                                    resolvedParts[r].map, input[r].filePath,
                                    input[r].content)]
    /\ UNCHANGED <<env, options, compilers, hasBabel, resolvedPartsCache, nrun, input,
                   pending, resolvedParts, join, cbCalls, emitted, thrown, merged,
                   mergeOrder, failures, optionReads>>

\* lines 115-180: mergeParts resumes with the map, or with what
\* generateSourceMap threw
MergeResume(r) ==
    /\ pc[r] = "awaitMap"
    /\ IF mloc[r].map.ok
       THEN /\ Deliver(r, MergeTail(resolvedParts[r], parseComponent(input[r].content),
                                    ScopeId(input[r].filePath), env, options,
                                    mloc[r].output, mloc[r].style, mloc[r].scriptChanged,
                                    mloc[r].templateChanged, mloc[r].map.val))
            /\ optionReads' = [optionReads EXCEPT ![r] =
                                 @ \cup ReadsInHotReload(mloc[r].style, env, options)]
       ELSE /\ pc' = [pc EXCEPT ![r] = "rejected"]
            /\ mloc' = [mloc EXCEPT ![r] = [t |-> "rejected", err |-> mloc[r].map.val]]
            /\ UNCHANGED <<cbCalls, optionReads>>
    /\ UNCHANGED <<env, options, compilers, hasBabel, resolvedPartsCache, nrun, input,
                   pending, resolvedParts, join, emitted, thrown, merged, mergeOrder,
                   failures>>

\* line 86: .catch(cb) on the chain Promise.all(...).then(mergeParts)
Catch(r) ==
    /\ \/ pc[r] = "parts" /\ join[r].st = "rejected"
       \/ pc[r] = "rejected"
    /\ cbCalls' = [cbCalls EXCEPT ![r] =
                     Append(@, Call(IF pc[r] = "parts" THEN join[r].err ELSE mloc[r].err,
                                    NoOutput))]
    /\ pc' = [pc EXCEPT ![r] = "done"]
    /\ mloc' = [mloc EXCEPT ![r] = NoLocals]
    /\ UNCHANGED <<env, options, compilers, hasBabel, resolvedPartsCache, nrun, input,
                   pending, resolvedParts, join, emitted, thrown, merged, mergeOrder,
                   failures, optionReads>>

\* the steps of a process whose caller makes up to `calls` calls of compile, on
\* documents of `docs`, with callbacks that throw or not as `throwing` says,
\* and applies configs of `configs` or loads one of `files` at any moment
Step(docs, throwing, calls, configs, files) ==
    \/ \E r \in Runs :
          \/ /\ r <= calls
             /\ \E content \in docs, filePath \in FilePaths, cbThrows \in throwing :
                   Compile(r, content, filePath, cbThrows)
          \/ \E task \in pending[r] : PartSettle(r, task)
          \/ MergeParts(r)
          \/ GenerateSourceMapResume(r)
          \/ MergeResume(r)
          \/ Catch(r)
    \/ \E config \in configs : ApplyConfig(config)
    \/ \E exists \in BOOLEAN, config \in files : LoadConfig(exists, config)

\* one call of compile, any document, any flags, any config
Next == Step(Docs, BOOLEAN, 1, Configs, ConfigFiles)

Spec == Init /\ [][Next]_vars

\* recompilation: calls of compile one after the other, in development mode
\* (hot reload on), the callback returning normally, source maps switched on
\* at some moment or never
RecompileDocs ==
    {Doc(tA, sA, <<>>), Doc(tB, sA, <<>>), Doc(tA, sB, <<>>), Doc(Null, sA, <<>>),
     Doc(Null, sX, <<>>), Doc(tA, sBabel, <<>>)}

InitRecompile ==
    /\ Init
    /\ env = [isProduction |-> FALSE, isServer |-> FALSE, isTest |-> FALSE]

SourceMapConfigs == {[sourceMap |-> TRUE]}

NextRecompile == Step(RecompileDocs, {FALSE}, MaxRuns, SourceMapConfigs, SourceMapConfigs)

SpecRecompile == InitRecompile /\ [][NextRecompile]_vars

---------------------------------------------------------------------------
\* concurrent compilation: the caller makes its calls without waiting for the
\* results, so the part compilations and merges of the runs interleave; in
\* development mode, the callback returning normally
ConcurrentDocs ==
    {Doc(tA, sA, <<>>), Doc(tB, sA, <<>>), Doc(Null, sB, <<>>)}

NextConcurrent ==
    \/ \E r \in Runs :
          \/ \E content \in ConcurrentDocs, filePath \in FilePaths :
                CompileCall(r, content, filePath, FALSE)
          \/ \E task \in pending[r] : PartSettle(r, task)
          \/ MergeParts(r)
          \/ GenerateSourceMapResume(r)
          \/ MergeResume(r)
          \/ Catch(r)
    \/ \E config \in SourceMapConfigs : ApplyConfig(config)
    \/ \E exists \in BOOLEAN, config \in SourceMapConfigs : LoadConfig(exists, config)

SpecConcurrent == InitRecompile /\ [][NextConcurrent]_vars

---------------------------------------------------------------------------
(* What the claims speak of *)

Started(r) == pc[r] # "idle"
DocOf(r) == input[r].content

\* the callback of run r was given an output
Delivered(r) == \E i \in 1..Len(cbCalls[r]) : cbCalls[r][i].err = Null

\* the text of the output run r delivered
OutText(r) == cbCalls[r][1].out.v

\* every part compilation of run r has settled, and none failed
AllPartsSucceeded(r) ==
    /\ pending[r] = {}
    /\ failures[r] = <<>>
    /\ DocOf(r).template # Null => resolvedParts[r].template # Null
    /\ DocOf(r).script # Null => resolvedParts[r].script # Null
    /\ Len(resolvedParts[r].styles) = Len(DocOf(r).styles)

ReloadCall == "    hotAPI.reload(\""
RerenderCall == "    hotAPI.rerender(\""
HotReloadOpening == "if (module.hot) {(function () {"
StyleInjectionCall == "var __vueify_style_dispose__ = require(\""
RenderAttachment == "__vue__options__.render = "

\* C1: mergeParts of a run is entered only when every part compilation of the
\* run has settled and none has failed; a run with a failed part compilation
\* never enters mergeParts.
C1_MergeAfterJoin == \A r \in merged : AllPartsSucceeded(r)

C1_Witness ==
    \E r \in merged :
        /\ DocOf(r).template # Null
        /\ DocOf(r).script # Null
        /\ Len(DocOf(r).styles) >= 2

\* C2: the callback of a run is invoked at most once, with an error or with
\* an output.
C2_CallbackOnce ==
    \A r \in Runs :
        /\ Len(cbCalls[r]) <= 1
        /\ \A i \in 1..Len(cbCalls[r]) :
              (cbCalls[r][i].err = Null) <=> (cbCalls[r][i].out # Undefined)

\* C3: when the document cannot be parsed, the callback gets the parse error
\* and no part compiler has been started.
C3_ParseErrorToCallback ==
    \A r \in Runs :
        (pc[r] = "done" /\ DocOf(r).malformed) =>
            /\ cbCalls[r] = << Call(ParseError, NoOutput) >>
            /\ pending[r] = {}
            /\ emitted[r] = <<>>

\* C4: once a part compilation of a run has failed, the run never merges, the
\* callback is called at most once, with the error of the first failure and
\* no output, and a finished run has called it exactly once.
C4_FirstFailureWins ==
    \A r \in Runs :
        failures[r] # <<>> =>
            /\ r \notin merged
            /\ Len(cbCalls[r]) <= 1
            /\ \A i \in 1..Len(cbCalls[r]) :
                  cbCalls[r][i] = Call(failures[r][1], NoOutput)
            /\ pc[r] = "done" => Len(cbCalls[r]) = 1

C4_Witness ==
    \E r \in Runs :
        /\ pc[r] = "done"
        /\ pending[r] = {}
        /\ Len(failures[r]) >= 2
        /\ failures[r][1] # failures[r][2]
        /\ cbCalls[r] = << Call(failures[r][1], NoOutput) >>

\* the parts of a document that name a file which cannot be read
MissingSrc(doc) ==
    {p \in ({doc.template, doc.script} \ {Null}) \cup {doc.styles[i] : i \in 1..Len(doc.styles)} :
        p.src # "" /\ p.src \notin DOMAIN Files}

NotifiedBeforeRead(r, p) ==
    \E i, j \in 1..Len(emitted[r]) :
        /\ i < j
        /\ emitted[r][i] = Event("dependency", input[r].filePath,
                                 SrcPath(p.src, input[r].filePath))
        /\ emitted[r][j] = Event("readFileSync", input[r].filePath,
                                 SrcPath(p.src, input[r].filePath))

NoTransformError(r) ==
    \A i \in 1..Len(failures[r]) : failures[r][i] = TypeError

\* C5: a run whose document names an unreadable file (no registered transform
\* reporting an error, no source map, the callback returning) notifies the
\* dependency before the read and ends with an output and no error.
C5_MissingSrcStillSucceeds ==
    \A r \in Runs :
        (/\ pc[r] = "done"
         /\ ~DocOf(r).malformed
         /\ MissingSrc(DocOf(r)) # {}
         /\ NoTransformError(r)
         /\ ~input[r].cbThrows
         /\ <<114, TRUE>> \notin optionReads[r]) =>
            /\ \A p \in MissingSrc(DocOf(r)) : NotifiedBeforeRead(r, p)
            /\ Len(cbCalls[r]) = 1
            /\ cbCalls[r][1].err = Null
            /\ IsStr(cbCalls[r][1].out)

\* the compiled form of a style part whose compilation succeeds
CompiledStyle(p, filePath) ==
    LET source == getContent(p, filePath).value
        res == IF p.lang \in Compilers THEN TransformResult(p.lang, source) ELSE source
    IN rewriteStyle(ScopeId(filePath), Trim(res.v), p.scoped)

\* C6: with two or more style parts, the styles list of a merged run, and the
\* CSS of its style notification, are in the order of the document.
C6_StylesInExtractionOrder ==
    \A r \in merged :
        Len(DocOf(r).styles) >= 2 =>
            LET want == [i \in 1..Len(DocOf(r).styles) |->
                            CompiledStyle(DocOf(r).styles[i], input[r].filePath)]
            IN /\ resolvedParts[r].styles = want
               /\ \A i \in 1..Len(emitted[r]) :
                     emitted[r][i].ev = "style" => emitted[r][i].arg = JoinNL(want)

\* runs q and r are two compiles of one file path, one after the other, that
\* both delivered an output
Recompiled(q, r) ==
    /\ q < r
    /\ Started(r)
    /\ input[q].filePath = input[r].filePath
    /\ \A m \in Runs : (q < m /\ m < r) => input[m].filePath # input[r].filePath
    /\ Delivered(q)
    /\ Delivered(r)

\* the text a template part was compiled to, null without a template
TemplateText(r) ==
    IF resolvedParts[r].template = Null THEN Null
    ELSE Str(resolvedParts[r].template.render)

\* C7: when the compiled script of the second of two compiles differs from
\* the first's, the second output's hot-reload block has the reload call and
\* no re-render call.
C7_ScriptChangeReloads ==
    \A q, r \in Runs :
        (/\ Recompiled(q, r)
         /\ HotReloadOn(env)
         /\ resolvedParts[q].script # resolvedParts[r].script) =>
            /\ Contains(OutText(r), ReloadCall)
            /\ ~Contains(OutText(r), RerenderCall)

C7_Witness ==
    \E q, r \in Runs :
        /\ Recompiled(q, r)
        /\ IsStr(resolvedParts[q].script)
        /\ IsStr(resolvedParts[r].script)
        /\ resolvedParts[q].script # resolvedParts[r].script
        /\ TemplateText(q) = TemplateText(r)
        /\ DocOf(r).template # Null
        /\ Contains(OutText(r), ReloadCall)

\* C8: when the second of two compiles has the content of the first, the
\* second output's hot-reload block has no reload call and no re-render call.
C8_SameContentNoUpdate ==
    \A q, r \in Runs :
        (/\ Recompiled(q, r)
         /\ HotReloadOn(env)
         /\ DocOf(q) = DocOf(r)) =>
            /\ ~Contains(OutText(r), ReloadCall)
            /\ ~Contains(OutText(r), RerenderCall)

\* C9: when the compiled script is the same and the template differs between
\* two compiles, the second output's hot-reload block has the re-render call
\* and no reload call.
C9_TemplateChangeRerenders ==
    \A q, r \in Runs :
        (/\ Recompiled(q, r)
         /\ HotReloadOn(env)
         /\ resolvedParts[q].script = resolvedParts[r].script
         /\ TemplateText(q) # TemplateText(r)) =>
            /\ Contains(OutText(r), RerenderCall)
            /\ ~Contains(OutText(r), ReloadCall)

C9_Witness ==
    \E q, r \in Runs :
        /\ Recompiled(q, r)
        /\ IsStr(resolvedParts[r].script)
        /\ resolvedParts[q].script = resolvedParts[r].script
        /\ TemplateText(q) # Null
        /\ TemplateText(r) # Null
        /\ TemplateText(q) # TemplateText(r)
        /\ Contains(OutText(r), RerenderCall)

ScriptOnly(doc) ==
    /\ ~doc.malformed
    /\ doc.template = Null
    /\ doc.script # Null
    /\ doc.styles = <<>>

\* the lines of a wrapped script followed by the options binding
WrappedScript(script) ==
    << <<";(function(){">> >> \o script
    \o << <<"})()">>,
          <<"if (module.exports.__esModule) module.exports = module.exports.default">>,
          <<"var __vue__options__ = (typeof module.exports === \"function\"? module.exports.options: module.exports)">> >>

\* C10 as stated: for a script-only document, under all flags, the output is
\* the wrapped script and the options binding, and nothing else.
C10_ScriptOnlyExact ==
    \A r \in Runs :
        (Started(r) /\ ScriptOnly(DocOf(r)) /\ Delivered(r)) =>
            OutText(r) = WrappedScript(resolvedParts[r].script.v) \o << <<>> >>

\* C10 amended: for a script-only document with a non-empty compiled script
\* and no source map, the output is the wrapped script and the options
\* binding, followed by the hot-reload block exactly when the run is not
\* production, not test and not server; it never has a style injection or a
\* template attachment.
C10_ScriptOnlyHotReload ==
    \A r \in Runs :
        (/\ Started(r)
         /\ ScriptOnly(DocOf(r))
         /\ Delivered(r)
         /\ <<114, FALSE>> \in optionReads[r]
         /\ TruthyVal(resolvedParts[r].script)) =>
            LET head == WrappedScript(resolvedParts[r].script.v)
                out == OutText(r)
            IN /\ Len(out) > Len(head)
               /\ SubSeq(out, 1, Len(head)) = head
               /\ ~Contains(out, StyleInjectionCall)
               /\ ~Contains(out, RenderAttachment)
               /\ IF ~env.isProduction /\ ~env.isTest /\ ~env.isServer
                  THEN /\ out[Len(head) + 1][1] = HotReloadOpening
                       /\ out[Len(out)] = <<"})()}">>
                  ELSE out = head \o << <<>> >>

C10_Witness ==
    \E r \in Runs :
        /\ Started(r)
        /\ ScriptOnly(DocOf(r))
        /\ Delivered(r)
        /\ <<114, FALSE>> \in optionReads[r]
        /\ TruthyVal(resolvedParts[r].script)
        /\ ~env.isProduction /\ ~env.isTest /\ ~env.isServer
        /\ Contains(OutText(r), HotReloadOpening)

\* C11: two successful compiles of the same document for the same file path,
\* in the same process (same options, flags and part compilers), deliver the
\* same output text, whatever the cache held when each of them merged.
C11_OutputDeterministic ==
    \A q, r \in Runs :
        (/\ Delivered(q)
         /\ Delivered(r)
         /\ input[q].filePath = input[r].filePath
         /\ DocOf(q) = DocOf(r)
         /\ optionReads[q] = optionReads[r]) =>
            OutText(q) = OutText(r)

\* the first line of text t on which token tok occurs, 0 when there is none
LineOf(t, tok) ==
    IF Contains(t, tok)
    THEN CHOOSE i \in 1..Len(t) :
            /\ \E j \in 1..Len(t[i]) : t[i][j] = tok
            /\ \A k \in 1..(i - 1) : \A j \in 1..Len(t[k]) : t[k][j] # tok
    ELSE 0

ScriptOpening == ";(function(){"

\* C12: a delivered output has the style-injection call exactly when the
\* joined compiled CSS is non-empty, the run is not in server mode and CSS
\* extraction is off; the call is then the first thing in the output, on a
\* line before the opening of the wrapped script.
C12_StyleInjectionFirst ==
    \A r \in Runs :
        Delivered(r) =>
            LET out == OutText(r)
                css == JoinNL(resolvedParts[r].styles)
                inj == LineOf(out, StyleInjectionCall)
            IN /\ (inj # 0) <=>
                      (css # Empty /\ ~env.isServer /\ <<105, FALSE>> \in optionReads[r])
               /\ inj # 0 =>
                      /\ inj = 1
                      /\ out[1][1] = StyleInjectionCall
                      /\ resolvedParts[r].script # Null =>
                            LineOf(out, ScriptOpening) > inj

C12_Witness ==
    \E r \in Runs :
        /\ Delivered(r)
        /\ Len(resolvedParts[r].styles) = 2
        /\ OutText(r)[1][1] = StyleInjectionCall
        /\ LineOf(OutText(r), ScriptOpening) = 2

\* the style notifications of run r, in order
StyleEvents(r) == SelectSeq(emitted[r], LAMBDA e : e.ev = "style")

\* C13: a run emits the style notification at most once; a run that entered
\* mergeParts with non-empty joined CSS, not in server mode, has emitted it
\* exactly once, with the file path and the joined CSS; a run with a failed
\* part compilation has not emitted it.
C13_StyleNotifiedOnce ==
    \A r \in Runs :
        /\ Len(StyleEvents(r)) <= 1
        /\ (/\ r \in merged
            /\ JoinNL(resolvedParts[r].styles) # Empty
            /\ ~env.isServer) =>
               StyleEvents(r) =
                   << Event("style", input[r].filePath, JoinNL(resolvedParts[r].styles)) >>
        /\ failures[r] # <<>> => StyleEvents(r) = <<>>

C13_Witness ==
    \E r \in merged :
        /\ pc[r] = "done"
        /\ Len(resolvedParts[r].styles) = 2
        /\ Len(StyleEvents(r)) = 1
        /\ <<105, TRUE>> \in optionReads[r]

ScopeIdAttachment == "__vue__options__._scopeId = \""

\* C14: under every combination of the flags, a delivered output has the
\* scope-id attachment exactly when a style part of the document is marked
\* scoped, and the id it attaches is the key under which the run's resolved
\* parts are in the cache.
C14_ScopeIdAttached ==
    \A r \in Runs :
        Delivered(r) =>
            LET out == OutText(r)
                at == LineOf(out, ScopeIdAttachment)
                styles == DocOf(r).styles
            IN /\ (at # 0) <=> (\E i \in 1..Len(styles) : styles[i].scoped)
               /\ at # 0 =>
                     \E id \in Ids :
                        /\ out[at] = <<ScopeIdAttachment>> \o id[1] \o <<"\"">>
                        /\ resolvedPartsCache[id] = resolvedParts[r]
                        /\ \A other \in Ids \ {id} : resolvedPartsCache[other] = Null

C14_Witness ==
    \E r \in Runs :
        /\ Delivered(r)
        /\ Len(DocOf(r).styles) = 2
        /\ ~DocOf(r).styles[2].scoped
        /\ LineOf(OutText(r), ScopeIdAttachment) # 0
        /\ env.isProduction /\ env.isServer

\* the map run r handed to the callback with its output
MapOf(r) == cbCalls[r][1].map

\* how many of the script lines 1..n have an original line
MappedUpTo(inMap, n) == Cardinality({i \in 1..n : OriginalLine(inMap, i) # 0})

\* C15: in a delivered output with a source map, every script line n that
\* has an original line is recorded at the generated line on which it stands
\* in the output text: n lines after the opening line of the wrapper, with or
\* without the style injection before it.
C15_GeneratedLineIsActual ==
    \A r \in Runs :
        (Delivered(r) /\ MapOf(r) # Null) =>
            LET out == OutText(r)
                script == resolvedParts[r].script.v
                inMap == resolvedParts[r].map
                opening == LineOf(out, ScriptOpening)
            IN \A n \in 1..Len(script) :
                  OriginalLine(inMap, n) # 0 =>
                     /\ out[opening + n] = script[n]
                     /\ MapOf(r).mappings[MappedUpTo(inMap, n)] =
                            <<opening + n, OriginalLine(inMap, n)>>

\* a run without a style injection, whose recorded lines are the actual ones
OffsetRightWithoutInjection ==
    \E r \in Runs :
        /\ Delivered(r)
        /\ MapOf(r) # Null
        /\ LineOf(OutText(r), StyleInjectionCall) = 0
        /\ Len(resolvedParts[r].script.v) >= 3
        /\ MapOf(r).mappings[2] = <<LineOf(OutText(r), ScriptOpening) + 3, 2>>

\* C16: with source maps on, a run whose script compiler gave a plain string
\* (non-empty, no incoming map) and whose parts all compiled ends with an
\* output handed to the callback; the output's last line is the map comment
\* and the map sends script line n to original line n.
C16_PlainScriptMapsOneToOne ==
    \A r \in merged :
        (/\ pc[r] = "done"
         /\ <<114, TRUE>> \in optionReads[r]
         /\ resolvedParts[r].map = Undefined
         /\ ~input[r].cbThrows) =>
            /\ Len(cbCalls[r]) = 1
            /\ Delivered(r)
            /\ MapOf(r) # Null
            /\ OutText(r)[Len(OutText(r))] = MapComment[2]
            /\ \A n \in 1..Len(resolvedParts[r].script.v) :
                  MapOf(r).mappings[n][2] = n

StaticRenderFnsAttachment == "__vue__options__.staticRenderFns = "
EsModuleCompat == "if (module.exports.__esModule) module.exports = module.exports.default"

\* the generated lines of the mappings of map m that point after output line n
MappedAfter(m, n) == SelectSeq(m.mappings, LAMBDA e : e[1] > n)

\* C17: in a delivered output with a source map and a compiled template, the
\* mappings for lines after the script block are one per line of the render
\* region, from the line of the render assignment to the last line of the
\* staticRenderFns assignment, in order, each to the line of the document on
\* which the template section starts.
C17_TemplateRegionMapped ==
    \A r \in Runs :
        (Delivered(r) /\ MapOf(r) # Null /\ resolvedParts[r].template # Null) =>
            LET out == OutText(r)
                first == LineOf(out, RenderAttachment)
                last == LineOf(out, StaticRenderFnsAttachment)
                         + Len(resolvedParts[r].template.staticRenderFns) - 1
                after == MappedAfter(MapOf(r), LineOf(out, EsModuleCompat))
            IN /\ first # 0
               /\ after = [k \in 1..(last - first + 1) |->
                              <<first + k - 1, DocOf(r).template.line>>]

C17_Witness ==
    \E r \in Runs :
        /\ Delivered(r)
        /\ MapOf(r) # Null
        /\ resolvedParts[r].template # Null
        /\ Len(resolvedParts[r].template.render) = 4
        /\ Len(MappedAfter(MapOf(r), LineOf(OutText(r), EsModuleCompat))) = 5
        /\ LineOf(OutText(r), HotReloadOpening) # 0

DisposeCall == "  module.hot.dispose(__vueify_style_dispose__)"

\* the flags and options of run r are one combination: the value of
\* options.extractCSS that line 160 read is the value line 105 read
OptionsFixedFor(r) ==
    \A v \in BOOLEAN :
        <<160, v>> \in optionReads[r] => <<105, v>> \in optionReads[r]

\* C18: under every combination of the production, server, test and
\* CSS-extraction flags and of empty or non-empty CSS, a delivered output with
\* a hot-reload block registers the style disposer in it exactly when the
\* output has the style-injection call, which declares the handle; and no
\* output names the handle in a disposal hook without that call before it.
C18_DisposerDeclared ==
    \A r \in Runs :
        (Delivered(r) /\ OptionsFixedFor(r)) =>
            LET out == OutText(r)
            IN /\ Contains(out, HotReloadOpening) =>
                     (Contains(out, DisposeCall) <=> Contains(out, StyleInjectionCall))
               /\ Contains(out, DisposeCall) =>
                     /\ Contains(out, StyleInjectionCall)
                     /\ LineOf(out, StyleInjectionCall) < LineOf(out, DisposeCall)

\* a run that was suspended at line 115 between the two reads of the option,
\* read it off both times and delivered the injection and the disposal hook
C18_Witness ==
    \E r \in Runs :
        /\ Delivered(r)
        /\ {<<105, FALSE>>, <<114, TRUE>>, <<160, FALSE>>} \subseteq optionReads[r]
        /\ Contains(OutText(r), DisposeCall)
        /\ Contains(OutText(r), StyleInjectionCall)
        /\ JoinNL(resolvedParts[r].styles) # Empty

\* configuration applied while a run is suspended at line 115 is outside one
\* combination of the flags: the output then registers the handle without
\* declaring it
DisposerUndeclared ==
    \E r \in Runs :
        /\ Delivered(r)
        /\ ~OptionsFixedFor(r)
        /\ Contains(OutText(r), DisposeCall)
        /\ ~Contains(OutText(r), StyleInjectionCall)

\* a run with a hot-reload block and non-empty CSS that is extracted
ExtractedWithHotReload ==
    \E r \in Runs :
        /\ Delivered(r)
        /\ Contains(OutText(r), HotReloadOpening)
        /\ JoinNL(resolvedParts[r].styles) # Empty
        /\ <<160, TRUE>> \in optionReads[r]
        /\ ~Contains(OutText(r), DisposeCall)

\* the update action run r decided on when it merged
UpdateOf(r) ==
    IF pc[r] \in {"awaitConsumer", "awaitMap"}
    THEN IF mloc[r].scriptChanged THEN "reload"
         ELSE IF mloc[r].templateChanged THEN "rerender" ELSE "none"
    ELSE IF Delivered(r)
    THEN IF Contains(OutText(r), ReloadCall) THEN "reload"
         ELSE IF Contains(OutText(r), RerenderCall) THEN "rerender" ELSE "none"
    ELSE "unknown"

\* the run whose merge was the last one so far for scope id `id`, 0 if none
LastMergedFor(id) ==
    LET at == {k \in 1..Len(mergeOrder) : ScopeId(input[mergeOrder[k]].filePath) = id}
    IN IF at = {} THEN 0
       ELSE mergeOrder[CHOOSE k \in at : \A j \in at : j <= k]

\* the update action that diffing `parts` against `prev` gives
UpdateAgainst(parts, prevScript, prevTemplate) ==
    IF StrictNotEqual(parts.script, prevScript) THEN "reload"
    ELSE IF StrictNotEqual(parts.template, prevTemplate) THEN "rerender"
    ELSE "none"

\* a step of concurrent compilation, as the cache sees it
CacheStep ==
    /\ mergeOrder' = mergeOrder => resolvedPartsCache' = resolvedPartsCache
    /\ \A r \in Runs :
          mergeOrder' = Append(mergeOrder, r) =>
             LET id == ScopeId(input[r].filePath)
                 before == LastMergedFor(id)
             IN /\ resolvedPartsCache[id] =
                       (IF before = 0 THEN Null ELSE resolvedParts[before])
                /\ resolvedPartsCache' =
                       [resolvedPartsCache EXCEPT ![id] = resolvedParts[r]]
                /\ UpdateOf(r)' =
                       (IF before = 0
                        THEN UpdateAgainst(resolvedParts[r], Undefined, Undefined)
                        ELSE UpdateAgainst(resolvedParts[r],
                                           resolvedParts[before].script,
                                           resolvedParts[before].template))

\* C19: under every interleaving of concurrent runs, the cache changes only
\* in the step in which a run enters mergeParts; that one step reads the
\* entry of the run's scope id and replaces it by the run's resolved parts,
\* and the entry it reads, and diffs against, is the resolved parts of the
\* run whose merge was the last before it for that scope id (none for the
\* first), also when that run is still suspended building its source map.
C19_CacheAtomic == [][CacheStep]_vars

C19_Witness ==
    \E q, r \in Runs :
        /\ r < q
        /\ Len(mergeOrder) >= 2
        /\ mergeOrder[1] = q
        /\ mergeOrder[2] = r
        /\ input[q].filePath = input[r].filePath
        /\ pc[q] = "awaitMap"
        /\ pc[r] = "awaitMap"
        /\ UpdateOf(r) = "rerender"

\* the callback of run r was given an error
ReportedError(r) == \E i \in 1..Len(cbCalls[r]) : cbCalls[r][i].err # Null

\* C20: when the one compile of a process has reported an error to its
\* callback, after a failed part compilation or after a failure in
\* mergeParts, the cache is as it was before the call: without an entry for
\* the file's scope id.
C20_FailedRunLeavesCache ==
    \A r \in Runs :
        (pc[r] = "done" /\ ReportedError(r) /\ ~input[r].cbThrows) =>
            resolvedPartsCache[ScopeId(input[r].filePath)] = Null

\* a run that failed in a part compilation, the cache left alone
PartFailureLeavesCache ==
    \E r \in Runs :
        /\ pc[r] = "done"
        /\ failures[r] # <<>>
        /\ ReportedError(r)
        /\ resolvedPartsCache = [id \in Ids |-> Null]

====
